---- MODULE Spec2Model ----
(***************************************************************************)
(* A model of e47::ProcessorChain (Server/Source/ProcessorChain.cpp): the  *)
(* ordered list of processors, the chain's bus layout and the aggregates   *)
(* the chain derives from its processors (latency, tail, extra channels,   *)
(* sidechain-disabled, double precision).                                  *)
(*                                                                         *)
(* Processor (Processor.cpp), the layout helpers of Utils.hpp and the      *)
(* juce::AudioProcessor base class are not part of the sources at hand;    *)
(* what the chain needs of them is modelled from the specification and is  *)
(* marked so in MODEL_MAP.json.                                            *)
(***************************************************************************)
EXTENDS Integers, Sequences, FiniteSets, TLC

VARIABLES
    m_processors,               \* std::vector<std::shared_ptr<Processor>>
    busesLayout,                \* the chain's own AudioProcessor::BusesLayout
    m_hasSidechain,
    m_sidechainDisabled,
    m_extraChannels,
    latencySamples,             \* AudioProcessor::getLatencySamples() of the chain
    m_tailSecs,
    m_supportsDoublePrecision,
    last,                       \* the operation that produced this state
    audio,                      \* the call of processBlockInternal in progress
    clearing,                   \* clear() is between releaseResources and its lock
    preroll                     \* the call of preProcessBlocks in progress

vars == << m_processors, busesLayout, m_hasSidechain, m_sidechainDisabled,
           m_extraChannels, latencySamples, m_tailSecs,
           m_supportsDoublePrecision, last, audio, clearing, preroll >>

\* the calls in progress, which an operation run to completion leaves alone
inProgress == << audio, clearing, preroll >>

(***************************************************************************)
(* Bounds of the model.                                                    *)
(***************************************************************************)
MaxStages == 2
MaxLatency == 1
MaxNegotiated == 1
MaxExtra == 2
MaxBlocks == 300
MaxConcurrent == 1

(***************************************************************************)
(* Small helpers.                                                          *)
(***************************************************************************)
jmax(a, b) == IF a < b THEN b ELSE a

\* a variant of jmax3 that keeps its first argument
jmaxOfFirst(a, b, c) == a

jmax3(a, b, c) == jmax(a, jmax(b, c))

Indices(s) == 1 .. Len(s)

RemoveAt(s, k) == [i \in 1 .. (Len(s) - 1) |-> IF i < k THEN s[i] ELSE s[i + 1]]

(***************************************************************************)
(* Buses and layouts.  A bus is an AudioChannelSet: its kind and its       *)
(* number of channels.  A layout has input buses and output buses.         *)
(***************************************************************************)
Mono == [kind |-> "mono", n |-> 1]

Stereo == [kind |-> "stereo", n |-> 2]

DiscreteChannels(n) == [kind |-> "discrete", n |-> n]

Layout(ins, outs) == [inputBuses |-> ins, outputBuses |-> outs]

NoLayout == Layout(<< >>, << >>)

RECURSIVE SumChannels(_)
SumChannels(buses) ==
    IF buses = << >> THEN 0 ELSE Head(buses).n + SumChannels(Tail(buses))

getLayoutNumChannels(l, isInput) ==
    IF isInput THEN SumChannels(l.inputBuses) ELSE SumChannels(l.outputBuses)

\* describeLayout(l, false, true, true): the name of the output side
describeOutputs(l) ==
    IF l.outputBuses = << >> THEN "None"
    ELSE LET b == l.outputBuses[1] IN
         CASE b.kind = "mono" -> "Mono"
           [] b.kind = "stereo" -> "Stereo"
           [] OTHER -> "Discrete"

(***************************************************************************)
(* The processing units a processor can be bound to: "fx" does mono and    *)
(* stereo, "nosc" stereo only and cannot take a live sidechain, "scfx" is  *)
(* stereo with an optional mono sidechain, "synth" has no input and a      *)
(* stereo or a six-channel output, and "missing" is an id no unit can be   *)
(* instantiated for.                                                       *)
(***************************************************************************)
Units == {"fx", "nosc", "missing"}

AllUnits == Units \cup {"scfx", "synth"}

UnitExists(u) == u # "missing"

UnitLayouts(u) ==
    CASE u = "fx" -> << Layout(<< Mono >>, << Mono >>), Layout(<< Stereo >>, << Stereo >>) >>
      [] u = "nosc" -> << Layout(<< Stereo >>, << Stereo >>) >>
      [] u = "scfx" -> << Layout(<< Stereo >>, << Stereo >>),
                          Layout(<< Stereo, Mono >>, << Stereo >>) >>
      [] u = "synth" -> << Layout(<< >>, << Stereo >>),
                           Layout(<< >>, << DiscreteChannels(6) >>) >>
      [] OTHER -> << >>

UnitDefaultLayout(u) ==
    CASE u = "fx" -> Layout(<< Mono >>, << Mono >>)
      [] u = "nosc" -> Layout(<< Stereo >>, << Stereo >>)
      [] u = "scfx" -> Layout(<< Stereo, Mono >>, << Stereo >>)
      [] u = "synth" -> Layout(<< >>, << Stereo >>)
      [] OTHER -> NoLayout

UnitNeedsDisabledSidechain(u) == u = "nosc"

UnitSupportsDouble(u) == u \in {"fx", "scfx"}

UnitTail(u) == CASE u \in {"fx", "scfx", "synth"} -> 1 [] u = "nosc" -> 2 [] OTHER -> 0

LayoutNames == {"", "Default", "Stereo", "5.1"}

(***************************************************************************)
(* Processor: construction, load's binding of the unit, unload.            *)
(***************************************************************************)
NewProcessor(u) ==
    [unit |-> u, layoutName |-> "", loaded |-> FALSE, released |-> FALSE,
     chainIdx |-> -1, suspended |-> FALSE, latency |-> 0, ran |-> FALSE,
     layout |-> NoLayout, extraIn |-> 0, extraOut |-> 0,
     needsDisabledSidechain |-> FALSE, supportsDouble |-> TRUE, tail |-> 0]

BindUnit(p, name, lat) ==
    [p EXCEPT !.loaded = TRUE, !.layoutName = name, !.latency = lat,
              !.layout = UnitDefaultLayout(p.unit),
              !.needsDisabledSidechain = UnitNeedsDisabledSidechain(p.unit),
              !.supportsDouble = UnitSupportsDouble(p.unit),
              !.tail = UnitTail(p.unit)]

ReleaseUnit(p) ==
    [p EXCEPT !.loaded = FALSE, !.latency = 0, !.tail = 0, !.layout = NoLayout,
              !.needsDisabledSidechain = FALSE, !.supportsDouble = TRUE]

getSupportedBusLayouts(p) == UnitLayouts(p.unit)

\* Processor::processBlock: whether the processor ran the block
ProcessorRuns(p, fails) == p.loaded /\ ~p.suspended /\ ~fails

setChainIndex(p, i) == [p EXCEPT !.chainIdx = i]

(***************************************************************************)
(* ProcessorChain::setProcessorBusesLayout: layout negotiation for one     *)
(* processor.  The running target of the three loops is a record           *)
(* [targetLayout, targetChIn, targetChOut, found].                         *)
(***************************************************************************)
NoTarget == [targetLayout |-> NoLayout, targetChIn |-> 0, targetChOut |-> 0,
             found |-> FALSE]

Target(l) == [targetLayout |-> l,
              targetChIn |-> getLayoutNumChannels(l, TRUE),
              targetChOut |-> getLayoutNumChannels(l, FALSE),
              found |-> TRUE]

\* line 108
isNamedTarget(targetOutputLayout) ==
    targetOutputLayout # "" /\ targetOutputLayout # "Default"

\* a variant of outputsMatch that does not compare the name
outputsMatchAnyName(l, targetOutputLayout) == TRUE

\* lines 111-112
outputsMatch(l, targetOutputLayout) == describeOutputs(l) = targetOutputLayout

\* lines 109-128: the loop over procLayouts for a named target
RECURSIVE namedLoop(_, _, _, _, _)
namedLoop(procLayouts, i, t, chIn, targetOutputLayout) ==
    IF i > Len(procLayouts) THEN t
    ELSE LET l == procLayouts[i]
             checkChIn == getLayoutNumChannels(l, TRUE)
             checkChOut == getLayoutNumChannels(l, FALSE)
         IN  IF outputsMatch(l, targetOutputLayout)
             THEN IF chIn = 0 \/ checkChIn = checkChOut
                  THEN Target(l)
                  ELSE IF checkChIn > t.targetChIn
                       THEN namedLoop(procLayouts, i + 1, Target(l), chIn, targetOutputLayout)
                       ELSE namedLoop(procLayouts, i + 1, t, chIn, targetOutputLayout)
             ELSE namedLoop(procLayouts, i + 1, t, chIn, targetOutputLayout)

\* lines 137-145: a layout with a matching number of out/in channels
RECURSIVE matchingLoop(_, _, _, _, _)
matchingLoop(procLayouts, i, t, chIn, chOut) ==
    IF i > Len(procLayouts) THEN t
    ELSE LET l == procLayouts[i]
             checkChIn == getLayoutNumChannels(l, TRUE)
             checkChOut == getLayoutNumChannels(l, FALSE)
         IN  IF checkChOut = chOut /\ (chIn = 0 \/ checkChIn > t.targetChIn)
             THEN matchingLoop(procLayouts, i + 1, Target(l), chIn, chOut)
             ELSE matchingLoop(procLayouts, i + 1, t, chIn, chOut)

\* lines 147-158: the highest number of output channels, then input channels
RECURSIVE highestLoop(_, _, _)
highestLoop(procLayouts, i, t) ==
    IF i > Len(procLayouts) THEN t
    ELSE LET l == procLayouts[i]
             checkChIn == getLayoutNumChannels(l, TRUE)
             checkChOut == getLayoutNumChannels(l, FALSE)
         IN  IF checkChOut > t.targetChOut
                \/ (checkChOut = t.targetChOut /\ checkChIn > t.targetChIn)
             THEN highestLoop(procLayouts, i + 1, Target(l))
             ELSE highestLoop(procLayouts, i + 1, t)

containsLayout(procLayouts, l) == \E i \in Indices(procLayouts) : procLayouts[i] = l

\* a variant of exactTarget with the two channel counts exchanged
exactTargetSwapped(layout, chIn, chOut) ==
    [targetLayout |-> layout, targetChIn |-> chOut, targetChOut |-> chIn,
     found |-> TRUE]

\* lines 130-135: the chain's own layout, when the processor supports it
exactTarget(layout, chIn, chOut) ==
    [targetLayout |-> layout, targetChIn |-> chIn, targetChOut |-> chOut,
     found |-> TRUE]

\* lines 129-159: the target when no layout is named
unnamedTarget(procLayouts, layout, chIn, chOut) ==
    IF containsLayout(procLayouts, layout)
    THEN exactTarget(layout, chIn, chOut)
    ELSE LET m == matchingLoop(procLayouts, 1, NoTarget, chIn, chOut)
         IN  IF m.found THEN m ELSE highestLoop(procLayouts, 1, m)

\* lines 161-166: apply the target; on failure fall back to the processor's
\* current layout.  setOk is the answer of Processor::setBusesLayout.
\* The result is << target, processor >>.
applyTarget(proc, t, setOk) ==
    IF ~t.found \/ ~setOk
    THEN << [t EXCEPT !.targetLayout = proc.layout,
                      !.targetChIn = getLayoutNumChannels(proc.layout, TRUE),
                      !.targetChOut = getLayoutNumChannels(proc.layout, FALSE)],
            proc >>
    ELSE << t, [proc EXCEPT !.layout = t.targetLayout] >>

\* lines 169-175: the extra channels of the processor and of the chain
setExtraChannels(proc, extraInChannels, extraOutChannels) ==
    [proc EXCEPT !.extraIn = extraInChannels, !.extraOut = extraOutChannels]

\* lines 107-159: the search for the target, and lines 161-166 for an
\* unnamed one.  The result is << target, processor >>.
findTarget(proc, targetOutputLayout, layout, chIn, chOut, setOk) ==
    IF isNamedTarget(targetOutputLayout)
    THEN << namedLoop(getSupportedBusLayouts(proc), 1, NoTarget, chIn,
                      targetOutputLayout),
            proc >>
    ELSE applyTarget(proc,
                     unnamedTarget(getSupportedBusLayouts(proc), layout, chIn, chOut),
                     setOk)

\* lines 168-185: with the target t and the processor p of findTarget
useTarget(t, p, chIn, chOut, extraChannels) ==
    IF t.found
    THEN [found |-> TRUE,
          proc |-> setExtraChannels(p, t.targetChIn - chIn, t.targetChOut - chOut),
          extraChannels |-> jmax3(extraChannels, t.targetChIn - chIn,
                                  t.targetChOut - chOut)]
    ELSE [found |-> FALSE, proc |-> p, extraChannels |-> extraChannels]

\* lines 103-185, for a processor that is loaded
negotiate(tp, chIn, chOut, extraChannels) ==
    useTarget(tp[1], tp[2], chIn, chOut, extraChannels)

\* The whole function.  Result: [found, proc, extraChannels].
setProcessorBusesLayout(proc, targetOutputLayout, layout, extraChannels, setOk) ==
    IF ~proc.loaded
    THEN [found |-> FALSE, proc |-> proc, extraChannels |-> extraChannels]
    ELSE negotiate(findTarget(proc, targetOutputLayout, layout,
                              getLayoutNumChannels(layout, TRUE),
                              getLayoutNumChannels(layout, FALSE), setOk),
                   getLayoutNumChannels(layout, TRUE),
                   getLayoutNumChannels(layout, FALSE), extraChannels)

\* What one call of setProcessorBusesLayout did, kept for the properties.
NegotiationRecord(proc, targetOutputLayout, layout, extraChannels, setOk, r) ==
    [target |-> targetOutputLayout, layout |-> layout, setOk |-> setOk,
     pre |-> proc, preExtra |-> extraChannels,
     found |-> r.found, post |-> r.proc, postExtra |-> r.extraChannels]

(***************************************************************************)
(* What the chain reads from a processor.                                  *)
(***************************************************************************)
getLatencySamples(p) == p.latency

isSuspended(p) == p.suspended

getTailLengthSeconds(p) == p.tail

(***************************************************************************)
(* ProcessorChain::updateNoLock: the aggregates, recomputed from the       *)
(* processors.  Result: [latency, supportsDouble, extraChannels,           *)
(* sidechainDisabled, tailSecs].                                           *)
(***************************************************************************)
\* lines 267-280: one pass over m_processors, from the values of lines 267-270
RECURSIVE updateLoop(_, _, _, _)
updateLoop(procs, i, acc, hasSidechain) ==
    IF i > Len(procs) THEN acc
    ELSE LET proc == procs[i] IN
         updateLoop(procs, i + 1,
                    [latency |-> acc.latency + getLatencySamples(proc),
                     supportsDouble |-> acc.supportsDouble /\ proc.supportsDouble,
                     extraChannels |-> jmax3(acc.extraChannels, proc.extraIn,
                                             proc.extraOut),
                     sidechainDisabled |->
                         hasSidechain /\ (acc.sidechainDisabled
                                          \/ proc.needsDisabledSidechain)],
                    hasSidechain)

\* lines 286-294: the tail of the last processor that is not suspended
RECURSIVE tailOfLastActive(_, _)
tailOfLastActive(procs, i) ==
    IF i = 0 THEN 0
    ELSE IF isSuspended(procs[i]) THEN tailOfLastActive(procs, i - 1)
         ELSE getTailLengthSeconds(procs[i])

updateNoLock(procs, hasSidechain) ==
    LET acc == updateLoop(procs, 1,
                          [latency |-> 0, supportsDouble |-> TRUE,
                           extraChannels |-> 0, sidechainDisabled |-> FALSE],
                          hasSidechain)
    IN  [latency |-> acc.latency,
         supportsDouble |-> acc.supportsDouble,
         extraChannels |-> acc.extraChannels,
         sidechainDisabled |-> acc.sidechainDisabled,
         tailSecs |-> tailOfLastActive(procs, Len(procs))]

\* The assignments updateNoLock makes to the chain's fields.
setAggregates(u) ==
    /\ latencySamples' = u.latency
    /\ m_supportsDoublePrecision' = u.supportsDouble
    /\ m_extraChannels' = u.extraChannels
    /\ m_sidechainDisabled' = u.sidechainDisabled
    /\ m_tailSecs' = u.tailSecs

UpdateAggregates(procs) == setAggregates(updateNoLock(procs, m_hasSidechain))

\* The record of a completed operation: its name, its argument (the index,
\* the channel counts of updateChannels, -1 where it has none), a flag, its result, its error text, the negotiations
\* it ran and the processors it unloaded.
Done(op, a, flag, ok, err, neg, unl) ==
    [op |-> op, a |-> a, flag |-> flag, ok |-> ok, err |-> err, neg |-> neg,
     unloaded |-> unl]

(***************************************************************************)
(* Processor::load and ProcessorChain::initPluginInstance.                 *)
(***************************************************************************)
\* lines 194-218.  Result: [found, proc, extraChannels, neg]; the pre-roll
\* of lines 212-216 runs the processor's processBlock.
initialised(r, neg) ==
    [found |-> r.found,
     proc |-> IF r.found
              THEN [r.proc EXCEPT !.ran = ProcessorRuns(r.proc, FALSE)]
              ELSE r.proc,
     extraChannels |-> r.extraChannels,
     neg |-> << neg >>]

negotiated(proc, layoutName, layout, extraChannels, setOk, r) ==
    initialised(r, NegotiationRecord(proc, layoutName, layout, extraChannels,
                                     setOk, r))

initPluginInstance(proc, layoutName, layout, extraChannels, setOk) ==
    negotiated(proc, layoutName, layout, extraChannels, setOk,
               setProcessorBusesLayout(proc, layoutName, layout, extraChannels,
                                       setOk))

\* Processor::load: bind the unit, then have the chain initialise it.
\* Result: [success, proc, extraChannels, err, neg].
loadOutcome(r) ==
    IF r.found
    THEN [success |-> TRUE, proc |-> r.proc,
          extraChannels |-> r.extraChannels, err |-> "", neg |-> r.neg]
    ELSE [success |-> FALSE, proc |-> ReleaseUnit(r.proc),
          extraChannels |-> r.extraChannels,
          err |-> "failed to find a working I/O configuration",
          neg |-> r.neg]

load(proc, layoutName, lat, layout, extraChannels, setOk) ==
    IF ~UnitExists(proc.unit)
    THEN [success |-> FALSE, proc |-> proc, extraChannels |-> extraChannels,
          err |-> "failed to load the unit", neg |-> << >>]
    ELSE loadOutcome(initPluginInstance(BindUnit(proc, layoutName, lat), layoutName,
                                        layout, extraChannels, setOk))

(***************************************************************************)
(* The calls in progress.  processBlockInternal: where the call is, its    *)
(* local latency, whether it cleared the sidechain, and what its loop saw: *)
(* the processors it handed the block to and m_sidechainDisabled at that   *)
(* moment.  preProcessBlocks: the block size, samplesProcessed and the     *)
(* number of blocks pushed.                                                *)
(***************************************************************************)
NoBlock == [pc |-> "idle", latency |-> 0, cleared |-> FALSE, handed |-> << >>,
            disabled |-> FALSE]

NoPreRoll == [pc |-> "idle", blockSize |-> 0, samplesProcessed |-> 0, blocks |-> 0]

(***************************************************************************)
(* The operations of the chain, each run to completion.                    *)
(***************************************************************************)
Init ==
    /\ m_processors = << >>
    /\ busesLayout = Layout(<< Stereo >>, << Stereo >>)
    /\ m_hasSidechain = FALSE
    /\ m_sidechainDisabled = FALSE
    /\ m_extraChannels = 0
    /\ latencySamples = 0
    /\ m_tailSecs = 0
    /\ m_supportsDoublePrecision = TRUE
    /\ last = Done("init", -1, FALSE, TRUE, "", << >>, << >>)
    /\ audio = NoBlock
    /\ clearing = FALSE
    /\ preroll = NoPreRoll

\* a variant of multiMonoRequested that lets a multi-mono request through
multiMonoIgnored(multiMono) == FALSE

\* line 226
multiMonoRequested(multiMono) == multiMono

\* lines 237-243: the list after addProcessor
addProcessor(procs, processor) ==
    Append(procs, setChainIndex(processor, Len(procs)))

\* lines 230-232: the processor of load's result r goes into the chain
addLoaded(r, multiMono) ==
    /\ m_processors' = addProcessor(m_processors, r.proc)
    /\ UpdateAggregates(addProcessor(m_processors, r.proc))
    /\ last' = Done("addPluginProcessor", -1, multiMono, r.success, r.err, r.neg,
                    << >>)
    /\ UNCHANGED << busesLayout, m_hasSidechain >>

\* lines 220-235
addPluginProcessor(id, layoutName, multiMono, lat, setOk) ==
    IF multiMonoRequested(multiMono)
    THEN /\ last' = Done("addPluginProcessor", -1, multiMono, FALSE,
                         "Multi-Mono layout not yet implemented", << >>, << >>)
         /\ UNCHANGED << m_processors, busesLayout, m_hasSidechain,
                         m_sidechainDisabled, m_extraChannels, latencySamples,
                         m_tailSecs, m_supportsDoublePrecision >>
    ELSE addLoaded(load(NewProcessor(id), layoutName, lat, busesLayout,
                        m_extraChannels, setOk),
                   multiMono)

\* a variant of delLoop that counts before it compares (++i == idx)
delLoopPreIncrement(procs, idx) ==
    IF idx >= 1 /\ idx <= Len(procs)
    THEN [procs |-> RemoveAt(procs, idx), unloaded |-> << procs[idx] >>]
    ELSE [procs |-> procs, unloaded |-> << >>]

\* lines 249-255: the list after the loop, and the processors it unloaded
delLoop(procs, idx) ==
    IF idx >= 0 /\ idx < Len(procs)
    THEN [procs |-> RemoveAt(procs, idx + 1), unloaded |-> << procs[idx + 1] >>]
    ELSE [procs |-> procs, unloaded |-> << >>]

\* lines 245-257
delProcessor(idx) ==
    LET d == delLoop(m_processors, idx) IN
    /\ m_processors' = d.procs
    /\ UpdateAggregates(d.procs)
    /\ last' = Done("delProcessor", idx, FALSE, TRUE, "", << >>, d.unloaded)
    /\ UNCHANGED << busesLayout, m_hasSidechain >>

\* lines 259-263
update ==
    /\ UpdateAggregates(m_processors)
    /\ last' = Done("update", -1, FALSE, TRUE, "", << >>, << >>)
    /\ UNCHANGED << m_processors, busesLayout, m_hasSidechain >>

\* line 309
validIndex(procs, idx) == idx > -1 /\ idx < Len(procs)

\* lines 309-313: the list after the exchange
exchange(procs, idxA, idxB) ==
    IF validIndex(procs, idxA) /\ validIndex(procs, idxB)
    THEN LET swapped == [procs EXCEPT ![idxA + 1] = procs[idxB + 1],
                                      ![idxB + 1] = procs[idxA + 1]]
             setA == [swapped EXCEPT ![idxA + 1] = setChainIndex(@, idxA)]
         IN  [setA EXCEPT ![idxB + 1] = setChainIndex(@, idxB)]
    ELSE procs

\* lines 306-314
exchangeProcessors(idxA, idxB) ==
    /\ m_processors' = exchange(m_processors, idxA, idxB)
    /\ last' = Done("exchangeProcessors", -1,
                    idxA \in 0 .. Len(m_processors) - 1
                        /\ idxB \in 0 .. Len(m_processors) - 1,
                    TRUE, "", << >>, << >>)
    /\ UNCHANGED << busesLayout, m_hasSidechain, m_sidechainDisabled,
                    m_extraChannels, latencySamples, m_tailSecs,
                    m_supportsDoublePrecision >>

\* lines 23-29: every processor releases its audio resources
releaseResources(procs) ==
    [i \in Indices(procs) |-> [procs[i] EXCEPT !.released = TRUE]]

\* lines 331-333: every processor is unloaded
unloadAll(procs) == [i \in Indices(procs) |-> ReleaseUnit(procs[i])]

\* lines 327-335
clear ==
    /\ m_processors' = << >>
    /\ last' = Done("clear", -1, FALSE, TRUE, "", << >>,
                    unloadAll(releaseResources(m_processors)))
    /\ UNCHANGED << busesLayout, m_hasSidechain, m_sidechainDisabled,
                    m_extraChannels, latencySamples, m_tailSecs,
                    m_supportsDoublePrecision >>

(***************************************************************************)
(* ProcessorChain::processBlockInternal, run to completion.                *)
(***************************************************************************)
\* line 362
sidechainCleared == Len(busesLayout.inputBuses) > 1 /\ m_sidechainDisabled

\* lines 370-376: every processor is handed the block; failing is the
\* position of a processor that fails internally (0: none does)
processAll(procs, failing) ==
    [i \in Indices(procs) |->
        [procs[i] EXCEPT !.ran = ProcessorRuns(procs[i], i = failing)]]

\* lines 370-376: the latency of the processors that ran
RECURSIVE blockLatency(_, _)
blockLatency(procs, i) ==
    IF i > Len(procs) THEN 0
    ELSE (IF procs[i].ran THEN getLatencySamples(procs[i]) ELSE 0)
         + blockLatency(procs, i + 1)

\* lines 357-384
processBlock(failing) ==
    LET procs == processAll(m_processors, failing) IN
    /\ m_processors' = procs
    /\ latencySamples' = blockLatency(procs, 1)
    /\ last' = Done("processBlock", -1, sidechainCleared, TRUE, "", << >>, << >>)
    /\ UNCHANGED << busesLayout, m_hasSidechain, m_sidechainDisabled,
                    m_extraChannels, m_tailSecs, m_supportsDoublePrecision >>

(***************************************************************************)
(* ProcessorChain::updateChannels.                                         *)
(***************************************************************************)
\* lines 54-60 and 68-74: the bus of a channel count
busFor(channels) ==
    IF channels = 1 THEN << Mono >>
    ELSE IF channels = 2 THEN << Stereo >>
    ELSE IF channels > 0 THEN << DiscreteChannels(channels) >>
    ELSE << >>

\* lines 61-67: the sidechain bus
sidechainBusFor(channelsSC, channelsIn) ==
    IF channelsSC = 1 THEN << Mono >>
    ELSE IF channelsSC = 2 THEN << Stereo >>
    ELSE IF channelsSC > 0 THEN << DiscreteChannels(channelsIn) >>
    ELSE << >>

\* lines 53-74
chainLayoutFor(channelsIn, channelsOut, channelsSC) ==
    Layout(busFor(channelsIn) \o sidechainBusFor(channelsSC, channelsIn),
           busFor(channelsOut))

\* lines 83-85: every processor negotiates again, with the layout name it
\* was loaded with.  Result: [procs, extraChannels, neg].
RECURSIVE negotiateAll(_, _, _, _, _, _)
negotiateNext(procs, i, layout, extraChannels, setOks, neg, r) ==
    negotiateAll([procs EXCEPT ![i] = r.proc], i + 1, layout, r.extraChannels,
                 setOks,
                 Append(neg, NegotiationRecord(procs[i], procs[i].layoutName,
                                               layout, extraChannels, setOks[i], r)))

negotiateAll(procs, i, layout, extraChannels, setOks, neg) ==
    IF i > Len(procs)
    THEN [procs |-> procs, extraChannels |-> extraChannels, neg |-> neg]
    ELSE negotiateNext(procs, i, layout, extraChannels, setOks, neg,
                       setProcessorBusesLayout(procs[i], procs[i].layoutName,
                                               layout, extraChannels, setOks[i]))

ChannelConfigs == { << 2, 2, 0 >>, << 2, 2, 1 >>, << 1, 1, 0 >>, << 0, 2, 0 >>,
                    << 2, 2, 3 >>, << 3, 3, 0 >> }

\* lines 51-87.  chainOk is the answer of the chain's own setBusesLayout.
setChannels(layout, request, chainOk, r) ==
    /\ busesLayout' = layout
    /\ m_hasSidechain' = (request[3] > 0)
    /\ m_sidechainDisabled' = FALSE
    /\ m_processors' = r.procs
    /\ m_extraChannels' = r.extraChannels
    /\ last' = Done("updateChannels", request, chainOk, TRUE, "", r.neg, << >>)
    /\ UNCHANGED << latencySamples, m_tailSecs, m_supportsDoublePrecision >>

negotiateChannels(layout, request, chainOk, setOks) ==
    setChannels(layout, request, chainOk,
                negotiateAll(m_processors, 1, layout, 0, setOks, << >>))

updateChannels(channelsIn, channelsOut, channelsSC, chainOk, setOks) ==
    negotiateChannels(IF chainOk
                      THEN chainLayoutFor(channelsIn, channelsOut, channelsSC)
                      ELSE busesLayout,
                      << channelsIn, channelsOut, channelsSC >>, chainOk, setOks)

(***************************************************************************)
(* What happens to a processor outside the chain's code: it is bypassed    *)
(* or resumed, and its unit reports another latency.                       *)
(***************************************************************************)
suspendProcessing(i, b) ==
    /\ i \in Indices(m_processors)
    /\ m_processors[i].loaded
    /\ m_processors[i].suspended # b
    /\ m_processors' = [m_processors EXCEPT ![i].suspended = b]
    /\ last' = Done("suspendProcessing", -1, b, TRUE, "", << >>, << >>)
    /\ UNCHANGED << busesLayout, m_hasSidechain, m_sidechainDisabled,
                    m_extraChannels, latencySamples, m_tailSecs,
                    m_supportsDoublePrecision >>

setLatencySamples(i, lat) ==
    /\ i \in Indices(m_processors)
    /\ m_processors[i].loaded
    /\ m_processors[i].latency # lat
    /\ m_processors' = [m_processors EXCEPT ![i].latency = lat]
    /\ last' = Done("setLatencySamples", -1, FALSE, TRUE, "", << >>, << >>)
    /\ UNCHANGED << busesLayout, m_hasSidechain, m_sidechainDisabled,
                    m_extraChannels, latencySamples, m_tailSecs,
                    m_supportsDoublePrecision >>

(***************************************************************************)
(* The specification.                                                      *)
(***************************************************************************)
Next ==
    \/ /\ \E id \in Units, name \in {"", "5.1"}, multiMono \in BOOLEAN,
             lat \in 0 .. MaxLatency :
             /\ Len(m_processors) < MaxStages
             /\ addPluginProcessor(id, name, multiMono, lat, TRUE)
       /\ UNCHANGED inProgress
    \/ /\ \E idx \in -1 .. MaxStages : delProcessor(idx)
       /\ UNCHANGED inProgress
    \/ /\ update
       /\ UNCHANGED inProgress
    \/ /\ \E idxA \in -1 .. MaxStages, idxB \in -1 .. MaxStages :
             exchangeProcessors(idxA, idxB)
       /\ UNCHANGED inProgress
    \/ /\ \E failing \in 0 .. Len(m_processors) : processBlock(failing)
       /\ UNCHANGED inProgress
    \/ /\ \E c \in { << 2, 2, 0 >>, << 2, 2, 1 >>, << 1, 1, 0 >> } :
             updateChannels(c[1], c[2], c[3], TRUE, [i \in Indices(m_processors) |-> TRUE])
       /\ UNCHANGED inProgress
    \/ /\ \E i \in 1 .. MaxStages, b \in BOOLEAN : suspendProcessing(i, b)
       /\ UNCHANGED inProgress
    \/ /\ \E i \in 1 .. MaxStages, lat \in 0 .. MaxLatency : setLatencySamples(i, lat)
       /\ UNCHANGED inProgress
    \/ /\ clear
       /\ UNCHANGED inProgress

Spec == Init /\ [][Next]_vars

(***************************************************************************)
(* The specification of layout negotiation: a short chain, every unit,     *)
(* every layout name, every channel configuration, and both answers of     *)
(* setBusesLayout.                                                         *)
(***************************************************************************)
NextNegotiation ==
    \/ /\ \E id \in AllUnits, name \in LayoutNames, setOk \in BOOLEAN :
             /\ Len(m_processors) < MaxNegotiated
             /\ addPluginProcessor(id, name, FALSE, 0, setOk)
       /\ UNCHANGED inProgress
    \/ /\ \E idx \in 0 .. Len(m_processors) - 1 : delProcessor(idx)
       /\ UNCHANGED inProgress
    \/ /\ \E c \in ChannelConfigs, chainOk \in BOOLEAN,
             setOks \in [Indices(m_processors) -> BOOLEAN] :
             updateChannels(c[1], c[2], c[3], chainOk, setOks)
       /\ UNCHANGED inProgress
    \/ /\ update
       /\ UNCHANGED inProgress

SpecNegotiation == Init /\ [][NextNegotiation]_vars

(***************************************************************************)
(* ProcessorChain::preProcessBlocks, block by block.  The block size is    *)
(* the chain's getBlockSize(): what prepareToPlay set, and 0 before the    *)
(* chain has been prepared.                                                *)
(***************************************************************************)
PreRollSamples == 16384

BlockSizes == {0, 64, 1000, 16384}

\* everything but the call of preProcessBlocks in progress
chainState == << m_processors, busesLayout, m_hasSidechain, m_sidechainDisabled,
                 m_extraChannels, latencySamples, m_tailSecs,
                 m_supportsDoublePrecision, last, audio, clearing >>

\* lines 389-393
startPreProcessBlocks(blockSize) ==
    /\ preroll.pc = "idle"
    /\ preroll' = [pc |-> "loop", blockSize |-> blockSize, samplesProcessed |-> 0,
                   blocks |-> 0]
    /\ UNCHANGED chainState

\* lines 394-397: one pass of the do-while loop
preProcessBlock ==
    /\ preroll.pc = "loop"
    /\ preroll.blocks < MaxBlocks
    /\ preroll' = [preroll EXCEPT
                      !.samplesProcessed = @ + preroll.blockSize,
                      !.blocks = @ + 1,
                      !.pc = IF preroll.samplesProcessed + preroll.blockSize
                                    < PreRollSamples
                             THEN "loop" ELSE "done"]
    /\ UNCHANGED chainState

\* line 398
endPreProcessBlocks ==
    /\ preroll.pc = "done"
    /\ preroll' = NoPreRoll
    /\ UNCHANGED chainState

NextPreRoll ==
    \/ \E blockSize \in BlockSizes : startPreProcessBlocks(blockSize)
    \/ preProcessBlock
    \/ endPreProcessBlocks

SpecPreRoll == Init /\ [][NextPreRoll]_vars

(***************************************************************************)
(* The audio thread and the control thread.  processBlockInternal takes    *)
(* m_processorsMtx for its loop only: it reads m_sidechainDisabled before  *)
(* and writes the latency after.  clear() takes the mutex twice, once in   *)
(* releaseResources and once for the unloading.  Every other operation of  *)
(* the control thread changes the chain while it holds the mutex and is     *)
(* one step here.                                                          *)
(***************************************************************************)
\* everything but the call of processBlockInternal in progress and the list
blockFrame == << busesLayout, m_hasSidechain, m_sidechainDisabled,
                 m_extraChannels, m_tailSecs, m_supportsDoublePrecision,
                 clearing, preroll >>

\* lines 361-365: before the mutex is taken
enterBlock ==
    /\ audio.pc = "idle"
    /\ audio' = [NoBlock EXCEPT !.pc = "entered", !.cleared = sidechainCleared]
    /\ UNCHANGED << m_processors, latencySamples, last, blockFrame >>

\* lines 367-377: the loop, under the mutex
processLocked ==
    /\ audio.pc = "entered"
    /\ m_processors' = processAll(m_processors, 0)
    /\ audio' = [audio EXCEPT
                    !.pc = "processed",
                    !.latency = blockLatency(processAll(m_processors, 0), 1),
                    !.handed = m_processors,
                    !.disabled = Len(busesLayout.inputBuses) > 1
                                     /\ m_sidechainDisabled]
    /\ UNCHANGED << latencySamples, last, blockFrame >>

\* lines 379-383: after the mutex is released
finishBlock ==
    /\ audio.pc = "processed"
    /\ latencySamples' = audio.latency
    /\ last' = Done("processBlock", -1, audio.cleared, TRUE, "", << >>, << >>)
    /\ audio' = NoBlock
    /\ UNCHANGED << m_processors, blockFrame >>

\* everything clear() leaves alone on its way
clearFrame == << busesLayout, m_hasSidechain, m_sidechainDisabled,
                 m_extraChannels, latencySamples, m_tailSecs,
                 m_supportsDoublePrecision, audio, preroll >>

\* line 329: releaseResources, under the mutex
clearRelease ==
    /\ ~clearing
    /\ clearing' = TRUE
    /\ m_processors' = releaseResources(m_processors)
    /\ UNCHANGED << last, clearFrame >>

\* lines 330-334: the unloading, under the mutex again
clearUnload ==
    /\ clearing
    /\ clearing' = FALSE
    /\ m_processors' = << >>
    /\ last' = Done("clear", -1, FALSE, TRUE, "", << >>, unloadAll(m_processors))
    /\ UNCHANGED clearFrame

NextConcurrent ==
    \/ /\ ~clearing
       /\ \E id \in Units, lat \in 0 .. MaxLatency :
             /\ Len(m_processors) < MaxConcurrent
             /\ addPluginProcessor(id, "", FALSE, lat, TRUE)
       /\ UNCHANGED inProgress
    \/ /\ ~clearing
       /\ \E idx \in 0 .. Len(m_processors) - 1 : delProcessor(idx)
       /\ UNCHANGED inProgress
    \/ /\ ~clearing
       /\ update
       /\ UNCHANGED inProgress
    \/ /\ ~clearing
       /\ \E c \in { << 2, 2, 0 >>, << 2, 2, 1 >> } :
             updateChannels(c[1], c[2], c[3], TRUE, [i \in Indices(m_processors) |-> TRUE])
       /\ UNCHANGED inProgress
    \/ clearRelease
    \/ clearUnload
    \/ enterBlock
    \/ processLocked
    \/ finishBlock

SpecConcurrent == Init /\ [][NextConcurrent]_vars

(***************************************************************************)
(* Vocabulary of the properties.                                           *)
(***************************************************************************)
Aggregates == << latencySamples, m_tailSecs, m_extraChannels,
                 m_sidechainDisabled, m_supportsDoublePrecision >>

\* the last operation was a call of addPluginProcessor that got past the
\* multi-mono check
Added == last.op = "addPluginProcessor" /\ ~last.flag

InRange(procs, idx) == idx \in 0 .. Len(procs) - 1

\* the sum of the latencies of the processors that ran their last block
RECURSIVE LatencyOfRunning(_)
LatencyOfRunning(procs) ==
    IF procs = << >> THEN 0
    ELSE (IF Head(procs).ran THEN Head(procs).latency ELSE 0)
         + LatencyOfRunning(Tail(procs))

\* the sum of the latencies of all processors
RECURSIVE LatencyOfAll(_)
LatencyOfAll(procs) ==
    IF procs = << >> THEN 0
    ELSE Head(procs).latency + LatencyOfAll(Tail(procs))

\* positions of the processors that are not bypassed
ActivePositions(procs) == {i \in Indices(procs) : ~procs[i].suspended}

LastActiveTail(procs) ==
    IF ActivePositions(procs) = {} THEN 0
    ELSE LET i == CHOOSE k \in ActivePositions(procs) :
                      \A j \in ActivePositions(procs) : j <= k
         IN  procs[i].tail

(***************************************************************************)
(* C1.  After any sequence of addPluginProcessor, delProcessor and         *)
(* exchangeProcessors calls, every processor's chain index is its          *)
(* position in the chain (counted from 0).                                 *)
(* The code does not satisfy it: delProcessor erases the processor and     *)
(* leaves the chain index of those behind it as it was.                    *)
(***************************************************************************)
C1_IndexIsPosition ==
    \A i \in Indices(m_processors) : m_processors[i].chainIdx = i - 1

(***************************************************************************)
(* C2.  After every completed processBlock, addPluginProcessor,            *)
(* delProcessor or update, the chain's latency is the sum of the latency   *)
(* of the processors that ran their most recent block.                     *)
(* The code does not satisfy it: updateNoLock adds the latency of every    *)
(* processor, processBlock that of the processors that ran.                *)
(***************************************************************************)
C2_LatencyIsSumOfRunning ==
    (Added \/ last.op \in {"processBlock", "delProcessor", "update"})
        => latencySamples = LatencyOfRunning(m_processors)

(***************************************************************************)
(* C3.  After every completed addPluginProcessor, delProcessor, update or  *)
(* exchangeProcessors with two valid indices, the chain's tail is the tail *)
(* of the last processor in chain order that is not bypassed, and 0 when   *)
(* there is none.                                                          *)
(* The code does not satisfy it: exchangeProcessors does not recompute     *)
(* m_tailSecs.                                                             *)
(***************************************************************************)
C3_TailIsLastActive ==
    (Added \/ last.op \in {"delProcessor", "update"}
           \/ (last.op = "exchangeProcessors" /\ last.flag))
        => m_tailSecs = LastActiveTail(m_processors)

(***************************************************************************)
(* C4.  In every reachable state and for every two valid indices a and b,  *)
(* exchanging a and b twice gives back the list of processors, each with   *)
(* the chain index it had.                                                 *)
(* The code does not satisfy it after a removal: the chain indices are     *)
(* stale by then (C1) and the exchange overwrites them with the positions. *)
(***************************************************************************)
C4_ExchangeTwiceRestores ==
    \A a, b \in 0 .. Len(m_processors) - 1 :
        exchange(exchange(m_processors, a, b), a, b) = m_processors

\* the part of C4 the code does satisfy: the order is restored
C4_OrderRestored ==
    \A a, b \in 0 .. Len(m_processors) - 1 :
        LET twice == exchange(exchange(m_processors, a, b), a, b) IN
        \A i \in Indices(m_processors) :
            [twice[i] EXCEPT !.chainIdx = 0] = [m_processors[i] EXCEPT !.chainIdx = 0]

C8_OutOfRangeIsNoOp ==
    [][((last'.op = "delProcessor" /\ ~InRange(m_processors, last'.a))
        \/ (last'.op = "exchangeProcessors" /\ ~last'.flag))
        => /\ UNCHANGED << m_processors, Aggregates >>
           /\ last'.unloaded = << >>]_vars

(***************************************************************************)
(* C9.  addPluginProcessor with multiMono set returns false with the error *)
(* "Multi-Mono layout not yet implemented" and creates no processor: the   *)
(* list and the aggregates are unchanged.                                  *)
(***************************************************************************)
C9_MultiMonoRejected ==
    [][(last'.op = "addPluginProcessor" /\ last'.flag)
        => /\ ~last'.ok
           /\ last'.err = "Multi-Mono layout not yet implemented"
           /\ UNCHANGED << m_processors, Aggregates, busesLayout, m_hasSidechain >>]_vars

\* a multi-mono request was rejected on a chain that holds a processor
C9_Witness ==
    /\ last.op = "addPluginProcessor"
    /\ last.flag
    /\ ~last.ok
    /\ Len(m_processors) > 0

(***************************************************************************)
(* C10.  After every completed addPluginProcessor, delProcessor, update or *)
(* updateChannels, m_sidechainDisabled holds exactly when the chain has a  *)
(* sidechain and some processor needs its sidechain disabled.              *)
(* The code does not satisfy it: updateChannels resets the flag and does   *)
(* not compute it again.                                                   *)
(***************************************************************************)
C10_SidechainDisabledIff ==
    (Added \/ last.op \in {"delProcessor", "update", "updateChannels"})
        => (m_sidechainDisabled
                <=> (m_hasSidechain
                     /\ \E i \in Indices(m_processors) :
                            m_processors[i].needsDisabledSidechain))

(***************************************************************************)
(* C12.  From every reachable state, while no processor's latency or       *)
(* bypass and no membership changes, any sequence of processBlock and      *)
(* update calls sets the chain's latency at most once.  Both calls set it  *)
(* exactly when the value they computed differs from the one the chain     *)
(* has (lines 281 and 379).                                                *)
(* The code does not satisfy it: with a bypassed processor that has a      *)
(* latency, processBlock and update compute different sums (C2), and each  *)
(* call after the other sets the latency again.                            *)
(***************************************************************************)
MaxCalls == 3

\* the latency a call computes; neither call changes what the next computes
latencyAfter(call, procs, hasSidechain) ==
    IF call = "update"
    THEN updateNoLock(procs, hasSidechain).latency
    ELSE blockLatency(processAll(procs, 0), 1)

\* how many of the calls, made in order from the latency current, set it
RECURSIVE latencySets(_, _, _)
latencySets(calls, i, current) ==
    IF i > Len(calls) THEN 0
    ELSE (IF latencyAfter(calls[i], m_processors, m_hasSidechain) # current
          THEN 1 ELSE 0)
         + latencySets(calls, i + 1,
                       latencyAfter(calls[i], m_processors, m_hasSidechain))

C12_LatencyReportedOnce ==
    \A calls \in [1 .. MaxCalls -> {"processBlock", "update"}] :
        latencySets(calls, 1, latencySamples) <= 1

(***************************************************************************)
(* C13.  After clear() the chain has no processor, every processor it held *)
(* has been unloaded, and the aggregates are those of an empty chain:      *)
(* latency 0, tail 0, no extra channels, sidechain not disabled, double    *)
(* precision supported.                                                    *)
(* The code does not satisfy it: clear() empties the list and does not     *)
(* call updateNoLock, so the aggregates stay what they were.               *)
(***************************************************************************)
C13_ClearEmptiesChain ==
    last.op = "clear"
        => /\ m_processors = << >>
           /\ \A i \in Indices(last.unloaded) : ~last.unloaded[i].loaded
           /\ latencySamples = 0
           /\ m_tailSecs = 0
           /\ m_extraChannels = 0
           /\ ~m_sidechainDisabled
           /\ m_supportsDoublePrecision

(***************************************************************************)
(* C14.  updateChannels builds each of the three buses from its own count: *)
(* 0 gives no bus, 1 a mono bus, 2 a stereo bus, N > 2 a discrete bus of N *)
(* channels; the sidechain bus has channelsSC channels whatever channelsIn *)
(* is.  (Stated of the calls whose layout the chain accepted.)             *)
(* The code does not satisfy it: for channelsSC > 2 line 66 builds the     *)
(* sidechain bus with channelsIn channels.                                 *)
(***************************************************************************)
NominalBus(n) ==
    IF n = 0 THEN << >>
    ELSE IF n = 1 THEN << Mono >>
    ELSE IF n = 2 THEN << Stereo >>
    ELSE << DiscreteChannels(n) >>

C14_BusesFromOwnCount ==
    (last.op = "updateChannels" /\ last.flag)
        => /\ busesLayout.inputBuses = NominalBus(last.a[1]) \o NominalBus(last.a[3])
           /\ busesLayout.outputBuses = NominalBus(last.a[2])
           /\ getLayoutNumChannels(busesLayout, TRUE) = last.a[1] + last.a[3]

(***************************************************************************)
(* Vocabulary of the negotiation properties.  A record of last.neg is one  *)
(* call of setProcessorBusesLayout on a loaded processor.                  *)
(***************************************************************************)
Negotiations == {last.neg[i] : i \in Indices(last.neg)}

Unnamed(n) == n.target \in {"", "Default"}

Supported(n) == {UnitLayouts(n.pre.unit)[i] : i \in Indices(UnitLayouts(n.pre.unit))}

\* the processor after the call has the chain's layout and no extra channel
ExactlyNominal(n) ==
    /\ n.found
    /\ n.post.layout = n.layout
    /\ n.post.extraIn = 0
    /\ n.post.extraOut = 0

\* negotiating once more, whatever setBusesLayout answers, changes nothing
Settled(n) ==
    \A again \in BOOLEAN :
        LET r == setProcessorBusesLayout(n.post, n.target, n.layout,
                                         n.postExtra, again)
        IN  r.found = n.found /\ r.proc = n.post /\ r.extraChannels = n.postExtra

C7_UnknownNameChangesNothing ==
    \A n \in Negotiations :
        (n.pre.loaded /\ ~Unnamed(n)
         /\ \A l \in Supported(n) : describeOutputs(l) # n.target)
            => /\ ~n.found
               /\ n.post = n.pre
               /\ n.postExtra = n.preExtra
               /\ (last.op = "addPluginProcessor"
                      => /\ ~last.ok
                         /\ last.err = "failed to find a working I/O configuration")
               \* the same call with any number of extra channels in the chain
               /\ \A extra \in 0 .. MaxExtra :
                      LET r == setProcessorBusesLayout(n.pre, n.target, n.layout,
                                                       extra, n.setOk)
                      IN  ~r.found /\ r.proc = n.pre /\ r.extraChannels = extra

\* "5.1" was asked of a loaded processor, which addPluginProcessor then
\* reported as a failure
C7_Witness ==
    \E n \in Negotiations :
        /\ n.pre.loaded /\ n.target = "5.1" /\ ~n.found
        /\ n.pre.layout # NoLayout
        /\ last.op = "addPluginProcessor" /\ ~last.ok

(***************************************************************************)
(* C16.  Whenever negotiation reports success, named target or not, the    *)
(* processor's extra channels are those of the layout it has afterwards:   *)
(* extraIn is the input channels of its layout minus the chain's, extraOut *)
(* the same of the outputs.                                                *)
(* The code does not satisfy it: for a named target the selected layout is *)
(* never applied to the processor (setBusesLayout is called in the other   *)
(* branch only), and the extra channels are computed from the selected     *)
(* layout all the same.                                                    *)
(***************************************************************************)
C16_ExtrasMatchActiveLayout ==
    \A n \in Negotiations :
        n.found
            => /\ n.post.extraIn = getLayoutNumChannels(n.post.layout, TRUE)
                                       - getLayoutNumChannels(n.layout, TRUE)
               /\ n.post.extraOut = getLayoutNumChannels(n.post.layout, FALSE)
                                        - getLayoutNumChannels(n.layout, FALSE)

(***************************************************************************)
(* C17.  With no named target and no exact match of the chain's layout:    *)
(* if some supported layout has as many output channels as the chain, the  *)
(* selected layout has as many, and with chIn > 0 it has the most input    *)
(* channels of the supported layouts with that output count.  (The         *)
(* selected layout is the one the processor has after a call whose         *)
(* setBusesLayout succeeded.)                                              *)
(* The code does not satisfy it: with chIn > 0 the loop of lines 137-145   *)
(* takes a layout only if it has more input channels than the target so    *)
(* far, which starts at 0, so a layout without inputs is never taken and   *)
(* the loop of lines 147-158 picks the highest output count instead.       *)
(***************************************************************************)
SameOutputs(n) ==
    {l \in Supported(n) : getLayoutNumChannels(l, FALSE)
                              = getLayoutNumChannels(n.layout, FALSE)}

C17_MatchingOutputPreferred ==
    \A n \in Negotiations :
        (n.pre.loaded /\ Unnamed(n) /\ n.setOk /\ n.layout \notin Supported(n)
         /\ SameOutputs(n) # {})
            => /\ n.found
               /\ n.post.layout \in SameOutputs(n)
               /\ (getLayoutNumChannels(n.layout, TRUE) > 0
                      => \A l \in SameOutputs(n) :
                             getLayoutNumChannels(l, TRUE)
                                 <= getLayoutNumChannels(n.post.layout, TRUE))

(***************************************************************************)
(* C20.  After every completed addPluginProcessor, delProcessor, update or *)
(* updateChannels, m_extraChannels is the maximum of 0 and the extraIn and *)
(* extraOut of every processor in the chain; it is never negative and an   *)
(* update() changes nothing about it.                                      *)
(***************************************************************************)
RECURSIVE MaxExtraOf(_)
MaxExtraOf(procs) ==
    IF procs = << >> THEN 0
    ELSE LET rest == MaxExtraOf(Tail(procs))
             own == IF Head(procs).extraIn < Head(procs).extraOut
                    THEN Head(procs).extraOut ELSE Head(procs).extraIn
         IN  IF own < rest THEN rest ELSE own

C15_PreRollTerminates ==
    [][(preroll.pc = "loop" /\ preroll'.blocks = preroll.blocks + 1)
        => /\ preroll'.samplesProcessed > preroll.samplesProcessed
           /\ (preroll'.pc = "done"
                  => /\ preroll'.samplesProcessed >= PreRollSamples
                     /\ preroll.samplesProcessed < PreRollSamples)
           /\ (preroll'.pc = "loop"
                  => preroll'.samplesProcessed < PreRollSamples)]_vars

(***************************************************************************)
(* C11.  Under every interleaving of processBlock with addPluginProcessor, *)
(* delProcessor and clear, every processor the loop of processBlock hands  *)
(* a block to is loaded and has not released its audio resources.          *)
(* The code does not satisfy it: clear() releases the resources of every   *)
(* processor, gives up the mutex and takes it again to unload them, and a  *)
(* block can be processed in between; and addPluginProcessor puts a        *)
(* processor that failed to load into the chain.                           *)
(***************************************************************************)
C11_OnlyActiveProcessorsRun ==
    \A i \in Indices(audio.handed) :
        audio.handed[i].loaded /\ ~audio.handed[i].released

(***************************************************************************)
(* C18.  In every processBlock on a chain with a sidechain bus, under any  *)
(* interleaving: if m_sidechainDisabled holds when the processors are      *)
(* processed, the call has cleared the sidechain before.                   *)
(* The code does not satisfy it: the flag is read before the mutex is      *)
(* taken, and an operation that sets it can run between the read and the   *)
(* loop.                                                                   *)
(***************************************************************************)
C18_DisabledSidechainCleared ==
    (audio.pc = "processed" /\ audio.disabled) => audio.cleared

(***************************************************************************)
(* C19.  When processBlock returns after an addPluginProcessor,            *)
(* delProcessor or update, whatever the interleaving of the two, the       *)
(* chain's latency is the one computed from the list of processors as it   *)
(* is then.  (No processor is bypassed here and none fails, so the sum of  *)
(* processBlock and the sum of updateNoLock are the same one.)             *)
(* The code does not satisfy it: processBlock writes the latency after it  *)
(* has released the mutex, and overwrites what an operation that ran in    *)
(* between has computed from the new list.                                 *)
(***************************************************************************)
C19_NoLostLatencyUpdate ==
    [][(audio.pc = "processed" /\ audio'.pc = "idle"
        /\ last.op \in {"addPluginProcessor", "delProcessor", "update"})
        => latencySamples' = LatencyOfAll(m_processors')]_vars

(***************************************************************************)
(* C21.  addPluginProcessor changes the list of processors only when it    *)
(* returns true: then the list is the old one with one processor appended, *)
(* whose chain index is the old size; when it returns false (the unit      *)
(* could not be loaded, no bus layout was found, or multi-mono was asked   *)
(* for) the list is what it was before the call.                           *)
(* The code does not satisfy it: addPluginProcessor hands the processor to *)
(* addProcessor whatever Processor::load returned, so a call that returns  *)
(* false has appended a processor that is not loaded.                      *)
(***************************************************************************)
C21_AddChangesChainOnlyOnSuccess ==
    [][(last'.op = "addPluginProcessor" /\ vars' # vars)
        => IF last'.ok
           THEN /\ Len(m_processors') = Len(m_processors) + 1
                /\ SubSeq(m_processors', 1, Len(m_processors)) = m_processors
                /\ m_processors'[Len(m_processors')].chainIdx = Len(m_processors)
           ELSE m_processors' = m_processors]_vars

====
